---- MODULE Spec2Model ----
(***************************************************************************)
(* A model of deepviz's backend introspection core:                        *)
(*   - ModelParser (src/backend/src/utils/model_parser.py): the recursive  *)
(*     walk of a module tree that builds the nested layer description;     *)
(*   - residual_block (src/backend/src/decorator/model_parse_decorator.py):*)
(*     the class decorator that stamps `residual` and `fusion_type` onto   *)
(*     every instance after its original constructor has run.              *)
(*                                                                         *)
(* Python values are modelled by the strings of their repr ("True", "10"), *)
(* None by the empty sequence and a present value x by <<x>>.  The nested  *)
(* OrderedDicts of a result tree are modelled as a heap of records that    *)
(* refer to each other by index, the way the Python objects refer to each  *)
(* other.                                                                  *)
(***************************************************************************)
EXTENDS Integers, Sequences, FiniteSets, TLC

VARIABLES
    model,            \* the module tree handed to the parser (pre-order sequence of modules)
    attributes_keep,  \* ModelParser.attributes_keep, the allow-list loaded by __init__
    pc,               \* "idle" | "parsing" | "done" | "error"
    stack,            \* the call stack of _parse_layers, innermost frame last
    heap,             \* the OrderedDicts that _parse_layers has returned so far
    result,           \* what __call__ returned: None or <<index into heap>>
    class_init,       \* the __init__ slot found in each class's own __dict__
    instances,        \* the instances constructed so far
    applied,          \* every (class, label) the Tagger has been applied with
    last_error        \* the exception the last operation raised, or "none"

vars == <<model, attributes_keep, pc, stack, heap, result,
          class_init, instances, applied, last_error>>

parser_vars == <<model, attributes_keep, pc, stack, heap, result>>
tagger_vars == <<class_init, instances, applied>>

\* ------------------------------------------------------------------ bounds

\* the largest number of modules in a model handed to the parser
MaxNodes == 4

None == <<>>
Some(x) == <<x>>

\* ------------------------------------------------------- the input models

\* The instance configurations the input modules are drawn from: the class
\* name, the instance's attributes (what hasattr sees) and its own parameters.
Kinds == {"Linear", "Bottleneck", "Stem"}

KindDict(k) ==
    CASE k = "Linear"     -> [a \in {"in_features", "out_features", "training"} |->
                                 CASE a = "in_features" -> "10"
                                   [] a = "out_features" -> "20"
                                   [] OTHER -> "True"]
      [] k = "Bottleneck" -> [a \in {"residual", "fusion_type", "out_features", "training"} |->
                                 CASE a = "residual" -> "True"
                                   [] a = "fusion_type" -> "concat"
                                   [] a = "out_features" -> "64"
                                   [] OTHER -> "True"]
      [] OTHER            -> [a \in {"residual", "in_features", "training"} |->
                                 CASE a = "residual" -> "False"
                                   [] a = "in_features" -> "3"
                                   [] OTHER -> "True"]

KindParams(k) ==
    IF k = "Linear" THEN <<<<"weight", <<20, 10>>>>, <<"bias", <<20>>>>>> ELSE <<>>

\* The names a parent gives its children: at most one child of a module is
\* called "adjust", the others are numbered in declaration order.
MainName(k) ==
    CASE k = 1 -> "main1" [] k = 2 -> "main2" [] k = 3 -> "main3"
      [] k = 4 -> "main4" [] OTHER -> "main5"

Module(parent, name, k) ==
    [parent |-> parent, name |-> name, type |-> k,
     dict |-> KindDict(k), params |-> KindParams(k)]

\* the ancestors of module i in tree t, i included
RECURSIVE AncestorsOrSelf(_, _)
AncestorsOrSelf(t, i) ==
    IF i = 0 THEN {} ELSE {i} \cup AncestorsOrSelf(t, t[i].parent)

SiblingNames(t, p) == {t[j].name : j \in {j \in 1..Len(t) : t[j].parent = p}}

\* the names the next child of module p may be declared with
NextNames(t, p) ==
    {MainName(Cardinality(SiblingNames(t, p) \ {"adjust"}) + 1)}
      \cup ({"adjust"} \ SiblingNames(t, p))

\* An object that is no nn.Module has no module record at all.
NotAModule == <<>>

\* The models are kept numbered in pre-order, so that a module's children, in
\* increasing number, are its children in declaration order.
Roots == {<<Module(0, "root", k)>> : k \in Kinds}

\* The allow-lists a configuration file may hold.
KeepLists == {<<"out_features", "in_features", "kernel_size">>,
              <<"in_features", "fusion_type", "in_features">>}

\* --------------------------------------------------- the host framework

IsModule(m) == Len(m) > 0

HasAttr(layer, attr) == attr \in DOMAIN layer.dict

GetAttr(layer, attr) == layer.dict[attr]

\* Python truthiness of a value
Truthy(v) == v \notin {"False", "None", "0", ""}

\* layer.named_children(): the direct children of module i, in declared order
RECURSIVE NamedChildrenFrom(_, _, _)
NamedChildrenFrom(m, i, j) ==
    IF j > Len(m) THEN <<>>
    ELSE (IF m[j].parent = i THEN <<j>> ELSE <<>>) \o NamedChildrenFrom(m, i, j + 1)

NamedChildren(m, i) == NamedChildrenFrom(m, i, 1)

\* ------------------------------------------------------------ ModelParser

\* an OrderedDict is a sequence of <<key, value>>; od[key] = value keeps the
\* position of a key that is already there and appends a new one
ODKeys(od) == {od[i][1] : i \in 1..Len(od)}

ODSet(od, key, value) ==
    IF key \in ODKeys(od)
    THEN [i \in 1..Len(od) |-> IF od[i][1] = key THEN <<key, value>> ELSE od[i]]
    ELSE Append(od, <<key, value>>)

\* one turn of the loop of _get_layer_attributes
KeepAttrPlaceholder(attrs, layer, attr) ==
    ODSet(attrs, attr, IF HasAttr(layer, attr) THEN GetAttr(layer, attr) ELSE "None")

KeepAttr(attrs, layer, attr) ==
    IF HasAttr(layer, attr) THEN ODSet(attrs, attr, GetAttr(layer, attr)) ELSE attrs

RECURSIVE GetLayerAttributesFrom(_, _, _, _)
GetLayerAttributesFrom(layer, keep, i, attrs) ==
    IF i > Len(keep) THEN attrs
    ELSE GetLayerAttributesFrom(layer, keep, i + 1, KeepAttr(attrs, layer, keep[i]))

GetLayerAttributes(layer, keep) == GetLayerAttributesFrom(layer, keep, 1, <<>>)

GetLayerInfo(layer, keep, name) ==
    [layer_name |-> name,
     layer_type |-> layer.type,
     parameters |-> layer.params,
     attributes |-> GetLayerAttributes(layer, keep)]

\* the branch condition of _parse_layers
IsResidualPresenceOnly(layer) == HasAttr(layer, "residual")

IsResidual(layer) == HasAttr(layer, "residual") /\ Truthy(GetAttr(layer, "residual"))

\* parent_input or "block_input": None and the empty string are the falsy names
InputSource(parent_input) ==
    IF parent_input = None \/ parent_input[1] = "" THEN "block_input" ELSE parent_input[1]

FusionType(layer) ==
    IF HasAttr(layer, "fusion_type") THEN GetAttr(layer, "fusion_type") ELSE "add"

IsAdjustNever(child_name) == FALSE

IsAdjust(child_name) == child_name = "adjust"

\* the parent_input handed to the adjust child and to every other child
AdjustParentInputOwnName(name, parent_input) == Some(name)

AdjustParentInput(name, parent_input) == parent_input

ChildParentInput(name, parent_input) == Some(name)

\* main_branch.append(...) and the list comprehension of the plain branch
CollectReversed(children, child) == <<child>> \o children

Collect(children, child) == Append(children, child)

\* the frame of a call of _parse_layers(layer, name, parent_input): `slot` says
\* what the caller does with the value returned
Frame(m, keep, node, name, parent_input, slot) ==
    [node |-> node, name |-> name, parent_input |-> parent_input, slot |-> slot,
     info |-> GetLayerInfo(m[node], keep, name),
     residual |-> IsResidual(m[node]),
     idx |-> 1, children |-> <<>>, adjust_layer |-> None]

\* what the call in `f` returns once its loop over named_children is over
Returned(m, f) ==
    [module |-> f.node,
     layer_name |-> f.info.layer_name,
     layer_type |-> f.info.layer_type,
     parameters |-> f.info.parameters,
     attributes |-> f.info.attributes,
     is_residual_block |-> f.residual,
     residual_connection |->
        IF f.residual
        THEN Some([input_source |-> InputSource(f.parent_input),
                   fusion_type |-> FusionType(m[f.node]),
                   adjust_layer |-> f.adjust_layer])
        ELSE None,
     children |-> f.children]

\* the for loop over named_children has run out
LoopOverLate(f, kids) == f.idx > Len(kids) + 1

LoopOver(f, kids) == f.idx > Len(kids)

Top == stack[Len(stack)]

\* a __call__ that tidies the allow-list before it parses
CallDedupKeep ==
    /\ pc \in {"idle", "done", "error"}
    /\ IsModule(model)
    /\ pc' = "parsing"
    /\ attributes_keep' = SubSeq(attributes_keep, 1, Len(attributes_keep) - 1)
    /\ stack' = <<Frame(model, attributes_keep', 1, "root", None, "top")>>
    /\ last_error' = "none"
    /\ heap' = <<>>
    /\ result' = None
    /\ UNCHANGED <<model, tagger_vars>>

\* The owner of the model registers one more sub-module (self.<name> = ...),
\* depth first, before the model is handed to the parser.
AddModule(p, name, k) ==
    /\ pc = "idle"
    /\ IsModule(model)
    /\ Len(model) < MaxNodes
    /\ p \in AncestorsOrSelf(model, Len(model))
    /\ name \in NextNames(model, p)
    /\ model' = Append(model, Module(p, name, k))
    /\ UNCHANGED <<attributes_keep, pc, stack, heap, result, tagger_vars, last_error>>

\* ModelParser.__call__: the type check, then _parse_layers(model)
Call ==
    /\ pc \in {"idle", "done", "error"}
    /\ IF IsModule(model)
       THEN /\ pc' = "parsing"
            /\ stack' = <<Frame(model, attributes_keep, 1, "root", None, "top")>>
            /\ last_error' = "none"
       ELSE /\ pc' = "error"
            /\ stack' = <<>>
            /\ last_error' = "TypeError"
    /\ heap' = <<>>
    /\ result' = None
    /\ UNCHANGED <<model, attributes_keep, tagger_vars>>

\* the loop body: the recursive call on the next child
Descend ==
    /\ pc = "parsing"
    /\ LET f == Top
           kids == NamedChildren(model, f.node)
       IN /\ ~LoopOver(f, kids)
          /\ f.idx <= Len(kids)
          /\ LET c == kids[f.idx]
                 child_name == model[c].name
                 g == IF f.residual /\ IsAdjust(child_name)
                      THEN Frame(model, attributes_keep, c, child_name,
                                 AdjustParentInput(f.name, f.parent_input), "adjust")
                      ELSE Frame(model, attributes_keep, c, child_name,
                                 ChildParentInput(f.name, f.parent_input), "child")
             IN stack' = Append(stack, g)
    /\ UNCHANGED <<model, attributes_keep, pc, heap, result, tagger_vars, last_error>>

\* the loop is over: return info to the caller, which stores it
Return ==
    /\ pc = "parsing"
    /\ LET f == Top
           kids == NamedChildren(model, f.node)
           ref == Len(heap) + 1
       IN /\ LoopOver(f, kids)
          /\ heap' = Append(heap, Returned(model, f))
          /\ IF Len(stack) = 1
             THEN /\ stack' = <<>>
                  /\ result' = Some(ref)
                  /\ pc' = "done"
             ELSE /\ LET p == stack[Len(stack) - 1]
                         q == IF f.slot = "adjust"
                              THEN [p EXCEPT !.adjust_layer = Some(ref), !.idx = @ + 1]
                              ELSE [p EXCEPT !.children = Collect(@, ref), !.idx = @ + 1]
                     IN stack' = Append(SubSeq(stack, 1, Len(stack) - 2), q)
                  /\ UNCHANGED <<result, pc>>
    /\ UNCHANGED <<model, attributes_keep, tagger_vars, last_error>>

\* ----------------------------------------------------------------- Tagger

\* The classes the Tagger meets: Block is an nn.Module subclass with its own
\* __init__, SubBlock inherits Block's __init__, Wrapper's __init__ calls
\* super().__init__() and goes on, Plain is no nn.Module.
Classes == {"Block", "SubBlock", "Wrapper", "Plain"}

Labels == {"add", "concat"}

Parent(c) ==
    CASE c = "SubBlock" -> "Block"
      [] c = "Wrapper"  -> "Block"
      [] c = "Block"    -> "Module"
      [] OTHER          -> "object"

RECURSIVE IsSubclass(_, _)
IsSubclass(c, base) ==
    IF c = base THEN TRUE
    ELSE IF c = "object" THEN FALSE
    ELSE IsSubclass(Parent(c), base)

\* the check of line 11
AcceptsAnyClass(c) == TRUE

IsModuleSubclass(c) == IsSubclass(c, "Module")

\* A constructor function: the original __init__ of class `base` under the
\* new_init wrappers of `labels`, innermost first.
Fn(base, labels) == [base |-> base, labels |-> labels]

ClassInit0 ==
    [c \in Classes |-> IF c = "SubBlock" THEN None ELSE Some(Fn(c, <<>>))]

\* cls.__init__: the attribute lookup along the inheritance chain
RECURSIVE Resolve(_, _)
Resolve(ci, c) ==
    IF ci[c] # None THEN ci[c][1] ELSE Resolve(ci, Parent(c))

\* what an original constructor may write to the two tag fields
NoWrites == <<>>
CtorWrites == {NoWrites, [residual |-> "False", fusion_type |-> "mul"]}

OrigEvent(c, w) == [ev |-> "orig", cls |-> c, writes |-> w, label |-> ""]
StampEvent(label) ==
    [ev |-> "stamp", cls |-> "", label |-> label,
     writes |-> [residual |-> "True", fusion_type |-> label]]

\* new_init: the original constructor, then the two assignments
NewInitStampFirst(original_log, label) == <<StampEvent(label)>> \o original_log

NewInitDefaultLabel(original_log, label) == Append(original_log, StampEvent("add"))

NewInit(original_log, label) == Append(original_log, StampEvent(label))

\* the events of running constructor function fn on a fresh instance
RECURSIVE RunInit(_, _, _)
RECURSIVE OriginalInit(_, _, _)
RunInit(ci, fn, w) ==
    IF fn.labels = <<>>
    THEN OriginalInit(ci, fn.base, w)
    ELSE NewInit(RunInit(ci, Fn(fn.base, SubSeq(fn.labels, 1, Len(fn.labels) - 1)), w),
                 fn.labels[Len(fn.labels)])

OriginalInit(ci, c, w) ==
    IF c = "Wrapper"
    THEN Append(RunInit(ci, Resolve(ci, Parent(c)), w), OrigEvent(c, NoWrites))
    ELSE <<OrigEvent(c, IF c = "Block" THEN w ELSE NoWrites)>>

\* self.<name> = value, for every name of w
SetAttrs(d, w) ==
    [a \in DOMAIN d \cup DOMAIN w |-> IF a \in DOMAIN w THEN w[a] ELSE d[a]]

RECURSIVE FieldsAfter(_, _)
FieldsAfter(log, i) ==
    IF i = 0 THEN <<>> ELSE SetAttrs(FieldsAfter(log, i - 1), log[i].writes)

\* the largest number of applications of the Tagger, and of instances
MaxApplied == 2
MaxInstances == 1

\* residual_block(label)(cls)
Decorate(c, label) ==
    /\ Len(applied) < MaxApplied
    /\ IF ~IsModuleSubclass(c)
       THEN /\ last_error' = "TypeError"
            /\ applied' = Append(applied, [cls |-> c, label |-> label, ok |-> FALSE])
            /\ UNCHANGED class_init
       ELSE /\ LET original_init == Resolve(class_init, c)
               IN class_init' =
                    [class_init EXCEPT ![c] =
                        Some(Fn(original_init.base, Append(original_init.labels, label)))]
            /\ applied' = Append(applied, [cls |-> c, label |-> label, ok |-> TRUE])
            /\ last_error' = "none"
    /\ UNCHANGED <<instances, parser_vars>>

\* cls(...): a new instance, built by the constructor the class resolves to
Instantiate(c, w) ==
    /\ Cardinality(instances) < MaxInstances
    /\ LET log == RunInit(class_init, Resolve(class_init, c), w)
       IN instances' = instances \cup
                          {[cls |-> c, ctor_writes |-> w, log |-> log,
                            dict |-> FieldsAfter(log, Len(log)),
                            seen |-> Len(applied)]}
    /\ last_error' = "none"
    /\ UNCHANGED <<class_init, applied, parser_vars>>

TaggerIdle ==
    /\ class_init = ClassInit0
    /\ instances = {}
    /\ applied = <<>>

\* ModelParser.__init__ has loaded the allow-list; a model is at hand
Init ==
    /\ model \in {NotAModule} \cup Roots
    /\ attributes_keep \in KeepLists
    /\ pc = "idle"
    /\ stack = <<>>
    /\ heap = <<>>
    /\ result = None
    /\ last_error = "none"
    /\ TaggerIdle

Build ==
    \E p \in 1..MaxNodes, k \in Kinds :
        \E name \in {"adjust"} \cup {MainName(i) : i \in 1..MaxNodes} : AddModule(p, name, k)

Next == Build \/ Call \/ Descend \/ Return

Spec == Init /\ [][Next]_vars

\* The single thread of the caller keeps running the call it has made.  Which
\* attributes are kept plays no part in whether the walk returns: one allow-list.
LiveInit == Init /\ attributes_keep = <<"out_features", "in_features", "kernel_size">>

LiveSpec == LiveInit /\ [][Next]_vars /\ WF_vars(Descend \/ Return)

\* no model is parsed while classes are decorated and instantiated
TaggerInit ==
    /\ model = NotAModule
    /\ attributes_keep = <<"in_features", "out_features">>
    /\ pc = "idle"
    /\ stack = <<>>
    /\ heap = <<>>
    /\ result = None
    /\ last_error = "none"
    /\ TaggerIdle

DecorateAny == \E c \in Classes, label \in Labels : Decorate(c, label)

InstantiateAny == \E c \in Classes, w \in CtorWrites : Instantiate(c, w)

TaggerNext == DecorateAny \/ InstantiateAny

TaggerSpec == TaggerInit /\ [][TaggerNext]_vars

\* ------------------------------------------------- the parser's claims

Node(h) == heap[h]
Source(h) == model[heap[h].module]
Nodes == 1..Len(heap)

\* the residual marker of a module, read off the module's attributes
MarkerTrue(i) == "residual" \in DOMAIN model[i].dict /\ model[i].dict["residual"] = "True"

ChildrenOf(i) == NamedChildren(model, i)

NotNamedAdjust(i) == model[i].name # "adjust"

AdjustChildren(i) == {c \in 1..Len(model) : model[c].parent = i /\ model[c].name = "adjust"}

ModulesOf(refs) == [j \in 1..Len(refs) |-> heap[refs[j]].module]

NamesOf(refs) == [j \in 1..Len(refs) |-> heap[refs[j]].layer_name]

\* C1: every parsed node is a residual block with a residual_connection exactly
\* when its module carries a truthy residual marker, and is neither otherwise;
\* a finished parse holds one node for every module of the model.
C1_ResidualFlagMatchesMarker ==
    /\ \A h \in Nodes :
          IF MarkerTrue(Node(h).module)
          THEN Node(h).is_residual_block = TRUE /\ Node(h).residual_connection # None
          ELSE Node(h).is_residual_block = FALSE /\ Node(h).residual_connection = None
    /\ pc = "done" =>
          /\ result = Some(Len(heap)) /\ Node(result[1]).module = 1
          /\ \A i \in 1..Len(model) : Cardinality({h \in Nodes : Node(h).module = i}) = 1

C1_Witness ==
    /\ pc = "done"
    /\ \E h \in Nodes : MarkerTrue(Node(h).module) /\ Source(h).name = "adjust"
                        /\ MarkerTrue(Source(h).parent)
    /\ \E h \in Nodes : "residual" \in DOMAIN Source(h).dict /\ ~MarkerTrue(Node(h).module)
    /\ \E h \in Nodes : "residual" \notin DOMAIN Source(h).dict

\* C2: a residual block's children are its modules not named adjust, in declared
\* order, and its adjust_layer is the node of its child named adjust, or null.
C2_AdjustSplitFromMainBranch ==
    \A h \in Nodes :
        MarkerTrue(Node(h).module) =>
            LET i == Node(h).module
                rc == Node(h).residual_connection[1]
            IN /\ Node(h).is_residual_block = TRUE
               /\ ModulesOf(Node(h).children) = SelectSeq(ChildrenOf(i), NotNamedAdjust)
               /\ IF AdjustChildren(i) = {}
                  THEN rc.adjust_layer = None
                  ELSE /\ rc.adjust_layer # None
                       /\ Node(rc.adjust_layer[1]).module \in AdjustChildren(i)
                       /\ Node(rc.adjust_layer[1]).layer_name = "adjust"

C2_Witness ==
    /\ pc = "done"
    /\ \E h \in Nodes :
          /\ MarkerTrue(Node(h).module)
          /\ Len(ChildrenOf(Node(h).module)) = 3
          /\ model[ChildrenOf(Node(h).module)[2]].name = "adjust"
          /\ Len(Node(h).children) = 2
    /\ \E h \in Nodes : MarkerTrue(Node(h).module) /\ ChildrenOf(Node(h).module) = <<>>
                        /\ Node(h).children = <<>>

\* C3: a module that is no residual block has one child node for each of its
\* children, with the children's declared names in declared order, at any depth
\* and also for a child named adjust.
C3_PlainChildrenInDeclaredOrder ==
    \A h \in Nodes :
        ~MarkerTrue(Node(h).module) =>
            LET kids == ChildrenOf(Node(h).module)
            IN /\ Len(Node(h).children) = Len(kids)
               /\ ModulesOf(Node(h).children) = kids
               /\ NamesOf(Node(h).children) = [j \in 1..Len(kids) |-> model[kids[j]].name]

C3_Witness ==
    /\ pc = "done"
    /\ \E h \in Nodes :
          /\ ~MarkerTrue(Node(h).module)
          /\ Node(h).module # 1
          /\ NamesOf(Node(h).children) = <<"main1", "adjust">>

\* C4: the keys of a node's attributes are the allow-listed names present on the
\* module, each with the module's value, without repetition and in allow-list order.
FirstIndex(keep, key) ==
    CHOOSE i \in 1..Len(keep) : keep[i] = key /\ \A j \in 1..(i - 1) : keep[j] # key

C4_AttributesAreAllowListedAndPresent ==
    \A h \in Nodes :
        LET attrs == Node(h).attributes
            d == Source(h).dict
            listed == {attributes_keep[i] : i \in 1..Len(attributes_keep)}
        IN /\ {attrs[i][1] : i \in 1..Len(attrs)} = listed \cap DOMAIN d
           /\ \A i \in 1..Len(attrs) : attrs[i][2] = d[attrs[i][1]]
           /\ \A i, j \in 1..Len(attrs) :
                 i < j => FirstIndex(attributes_keep, attrs[i][1])
                            < FirstIndex(attributes_keep, attrs[j][1])

C4_Witness ==
    /\ pc = "done"
    /\ \E h \in Nodes :
          /\ Node(h).attributes = <<<<"out_features", "20">>, <<"in_features", "10">>>>
          /\ "kernel_size" \notin DOMAIN Source(h).dict
          /\ "training" \in DOMAIN Source(h).dict
    /\ \E h \in Nodes : Node(h).attributes = <<<<"in_features", "3">>>>

\* C7 as claimed: the input_source of every residual block is the name of its
\* parent module, or "block_input" for a block parsed without a parent.
ParentContext(i) == IF model[i].parent = 0 THEN "block_input" ELSE model[model[i].parent].name

C7_InputSourceIsParentName ==
    \A h \in Nodes :
        Node(h).is_residual_block =>
            Node(h).residual_connection[1].input_source = ParentContext(Node(h).module)

\* C7 as amended: the input_source of a residual block is the name of its parent
\* module, or "block_input" without a parent, except for the adjust child of a
\* residual block, whose input_source is the one of the block it adjusts.
RECURSIVE SkipPathSource(_)
SkipPathSource(i) ==
    IF model[i].parent # 0 /\ model[i].name = "adjust" /\ MarkerTrue(model[i].parent)
    THEN SkipPathSource(model[i].parent)
    ELSE ParentContext(i)

C7_InputSourceFollowsSkipPath ==
    \A h \in Nodes :
        Node(h).is_residual_block =>
            Node(h).residual_connection[1].input_source = SkipPathSource(Node(h).module)

C7_Witness ==
    /\ pc = "done"
    /\ \E h \in Nodes :
          /\ Node(h).is_residual_block
          /\ Source(h).name = "adjust"
          /\ Source(h).parent # 0
          /\ MarkerTrue(Source(h).parent)
          /\ model[Source(h).parent].parent # 0
          /\ Node(h).residual_connection[1].input_source = model[model[Source(h).parent].parent].name
    /\ \E h \in Nodes : Node(h).is_residual_block /\ Source(h).name # "adjust"
                        /\ Source(h).parent # 0 /\ MarkerTrue(Source(h).parent)
                        /\ Node(h).residual_connection[1].input_source = model[Source(h).parent].name

\* C8: no step of a parse call, the first or a later one, changes the model or
\* the allow-list.
C8_ParseIsReadOnly ==
    [][(pc # "idle" \/ pc' # "idle") =>
          (model' = model /\ attributes_keep' = attributes_keep)]_vars

C8_Witness ==
    /\ pc = "done"
    /\ Len(heap) = Len(model)
    /\ Len(model) >= 3
    /\ \E h \in Nodes : Node(h).attributes # <<>>

\* C10: a parse that has started returns, and the node of a module without
\* children has no children.
C10_ParseReturns ==
    /\ [](\A h \in Nodes : ChildrenOf(Node(h).module) = <<>> => Node(h).children = <<>>)
    /\ (pc = "parsing") ~> (pc = "done")

C10_Witness ==
    /\ pc = "done"
    /\ Len(model) >= 4
    /\ \E h \in Nodes : MarkerTrue(Node(h).module) /\ AdjustChildren(Node(h).module) # {}
    /\ \E h \in Nodes : ~MarkerTrue(Node(h).module) /\ ChildrenOf(Node(h).module) # <<>>
    /\ \E h \in Nodes : ChildrenOf(Node(h).module) = <<>> /\ Node(h).children = <<>>

\* ------------------------------------------------- the Tagger's claims

\* the labels the Tagger was applied with to class c, among the first n applications
RECURSIVE OwnLabels(_, _)
OwnLabels(c, n) ==
    IF n = 0 THEN <<>>
    ELSE OwnLabels(c, n - 1)
           \o (IF applied[n].cls = c /\ applied[n].ok THEN <<applied[n].label>> ELSE <<>>)

FirstApplied(c, n) ==
    CHOOSE k \in 1..n : applied[k].cls = c /\ applied[k].ok
                        /\ \A j \in 1..(k - 1) : ~(applied[j].cls = c /\ applied[j].ok)

\* The applications of the Tagger around the constructor that class c runs after
\* the first n applications, in the order their stamps run: a class that defines
\* no constructor takes over the constructor its base had when it was first tagged.
TagsAround(c, n) ==
    CASE c = "Block"    -> OwnLabels("Block", n)
      [] c = "Wrapper"  -> OwnLabels("Block", n) \o OwnLabels("Wrapper", n)
      [] c = "SubBlock" -> IF OwnLabels("SubBlock", n) = <<>>
                           THEN OwnLabels("Block", n)
                           ELSE OwnLabels("Block", FirstApplied("SubBlock", n) - 1)
                                  \o OwnLabels("SubBlock", n)
      [] OTHER          -> <<>>

IsStamp(e) == e.ev = "stamp"

StampLabels(log) ==
    LET stamps == SelectSeq(log, IsStamp)
    IN [j \in 1..Len(stamps) |-> stamps[j].label]

\* the Tagger had been applied to the class of instance i, or to a base of it,
\* when the instance was made
Tagged(i) ==
    \E k \in 1..i.seen :
        applied[k].ok /\ IsSubclass(i.cls, applied[k].cls)

TagsSeen(i) ==
    {applied[k].label : k \in {j \in 1..i.seen :
                                 applied[j].ok /\ IsSubclass(i.cls, applied[j].cls)}}

\* C5 as claimed: an instance of a tagged class, made directly or through a
\* subclass, is stamped exactly once, after the original constructor.
C5_StampedExactlyOnce ==
    \A i \in instances :
        Tagged(i) =>
            /\ Len(StampLabels(i.log)) = 1
            /\ i.log[1].ev = "orig"

\* C5 as amended: an instance is stamped once for each application of the Tagger
\* around the constructor its class runs (exactly once when there is one), every
\* stamp comes after the original constructor it wraps, and nothing that an
\* original constructor wrote to the two fields survives the stamps.
C5_StampedOncePerApplication ==
    \A i \in instances :
        LET log == i.log
        IN /\ StampLabels(log) = TagsAround(i.cls, i.seen)
           /\ log[1].ev = "orig"
           /\ \A j \in 1..Len(log) :
                 (log[j].ev = "orig" /\ log[j].writes # NoWrites) =>
                     \A k \in 1..Len(log) : IsStamp(log[k]) => j < k
           /\ i.cls = "Wrapper" =>
                 \E j \in 1..Len(log) :
                    /\ log[j].ev = "orig" /\ log[j].cls = "Wrapper"
                    /\ Len(StampLabels(SubSeq(log, j + 1, Len(log))))
                          = Len(OwnLabels("Wrapper", i.seen))
           /\ Tagged(i) =>
                 /\ StampLabels(log) # <<>>
                 /\ i.dict["residual"] = "True"
                 /\ i.dict["fusion_type"] \in Labels

C5_Witness ==
    \E i \in instances :
        /\ i.cls = "SubBlock"
        /\ i.ctor_writes # NoWrites
        /\ Len(StampLabels(i.log)) = 2
        /\ i.dict["residual"] = "True"

C9_RejectsNonModuleClass ==
    /\ \A k \in 1..Len(applied) : applied[k].ok <=> applied[k].cls # "Plain"
    /\ class_init["Plain"] = Some(Fn("Plain", <<>>))
    /\ (/\ applied # <<>>
        /\ applied[Len(applied)].cls = "Plain"
        /\ \A i \in instances : i.seen < Len(applied)) => last_error = "TypeError"
    /\ \A i \in instances :
          i.cls = "Plain" =>
              /\ StampLabels(i.log) = <<>>
              /\ "residual" \notin DOMAIN i.dict
              /\ "fusion_type" \notin DOMAIN i.dict

C9_Witness ==
    \E i \in instances :
        /\ i.cls = "Plain"
        /\ \E k \in 1..i.seen : applied[k].cls = "Plain" /\ ~applied[k].ok

====
